---- MODULE Spec2Model ----
(***************************************************************************)
(* Model of langchain/llms/vllm.py: the VLLM adapter (construction through *)
(* the root validator, sampling-parameter resolution and result mapping in *)
(* _generate) and the VLLMOpenAI invocation-parameter map.                 *)
(*                                                                         *)
(* Encoding of Python values:                                              *)
(*   - Optional[T]: None is the empty tuple, a present value v is <<v>>;   *)
(*   - dict: a function whose DOMAIN is the set of keys;                   *)
(*   - float fields are modelled by the integers 0 and 1;                  *)
(*   - an object keeps an "id" field so that "the very same object" and    *)
(*     "a freshly built equal-looking object" stay distinguishable.        *)
(***************************************************************************)
EXTENDS Integers, Sequences, FiniteSets, TLC

VARIABLES importable, phase, values, self, imports, constructed, raised,
          call, oa, oaParams

vars == <<importable, phase, values, self, imports, constructed, raised,
          call, oa, oaParams>>

vllmVars == <<importable, phase, values, self, imports, constructed, raised, call>>

----------------------------------------------------------------------------
(* Bounds *)

MaxN == 2
MaxBatch == 2

----------------------------------------------------------------------------
(* Python values *)

None == <<>>
Some(v) == <<v>>

\* Python truthiness of an optional engine object: None is falsy; vllm.LLM
\* and vllm.SamplingParams instances define neither __bool__ nor __len__
\* and are therefore truthy.
Truthy(v) == v # None

\* {**a, **b}: keys of both, b wins on collision.
Merge(a, b) ==
  [k \in (DOMAIN a) \cup (DOMAIN b) |-> IF k \in DOMAIN b THEN b[k] ELSE a[k]]

\* the message of the ImportError raised by the validator (the source's
\* backquotes around the pip command are written as single quotes)
ImportErrorMsg ==
  "Could not import vllm python package. Please install it with 'pip install vllm'."

----------------------------------------------------------------------------
(* Input domains *)

Prompts == {"p1", "p2"}

\* prompt batches of a call: every list of at most MaxBatch prompts in which
\* neighbouring prompts differ (so that the order of a batch is observable)
Batches ==
  {b \in UNION {[1..len -> Prompts] : len \in 0..MaxBatch} :
     \A i \in 1..(Len(b) - 1) : b[i] # b[i + 1]}

\* stop argument of a call: absent, an empty list, a one-element list
StopArgs == {None, Some(<<>>), Some(<<"STOP">>)}

\* **kwargs of a call: keyword names accepted by SamplingParams.  "stop" can
\* never be in kwargs, it binds to the named parameter.
KwargsSet == {<<>>} \cup {[n |-> k] : k \in 1..MaxN}

\* a vllm.LLM object handed in by the caller
SuppliedLLM ==
  [id |-> "supplied", model |-> "preloaded", tensor_parallel_size |-> Some(1),
   trust_remote_code |-> Some(FALSE), dtype |-> "auto", download_dir |-> None,
   kwargs |-> <<>>]

\* a vllm.SamplingParams object handed in by the caller
PrebuiltSamplingParams(k) ==
  [id |-> "prebuilt",
   kw |-> [n |-> k, best_of |-> None, max_tokens |-> 16, top_k |-> -1,
           top_p |-> 1, temperature |-> 0, presence_penalty |-> 0,
           frequency_penalty |-> 0, stop |-> Some(<<"PRE">>),
           ignore_eos |-> FALSE, use_beam_search |-> FALSE, logprobs |-> None]]

\* field values of class VLLM with their declared defaults
VLLMFields(model, n, stop, vllm_obj, sp_obj) ==
  [model |-> model,
   tensor_parallel_size |-> Some(1),
   trust_remote_code |-> Some(FALSE),
   n |-> n,
   best_of |-> None,
   presence_penalty |-> 0,
   frequency_penalty |-> 0,
   temperature |-> 1,
   top_p |-> 1,
   top_k |-> -1,
   use_beam_search |-> FALSE,
   stop |-> stop,
   ignore_eos |-> FALSE,
   max_new_tokens |-> 512,
   logprobs |-> None,
   dtype |-> "auto",
   download_dir |-> None,
   vllm_obj |-> vllm_obj,
   vllm_sampling_params_obj |-> sp_obj,
   vllm_kwargs |-> <<>>,
   client |-> None]

Configs ==
  {VLLMFields("facebook/opt-125m", n, stop, obj, sp) :
     n \in 1..MaxN,
     stop \in {None, Some(<<"END">>)},
     obj \in {None, Some(SuppliedLLM)},
     sp \in {None, Some(PrebuiltSamplingParams(MaxN))}}

----------------------------------------------------------------------------
(* The engine package (vllm), seen through the surface the adapter consumes *)

\* vllm.LLM(model=..., tensor_parallel_size=..., ...)
VLLModel(model, tensor_parallel_size, trust_remote_code, dtype, download_dir, kwargs) ==
  [id |-> "constructed", model |-> model,
   tensor_parallel_size |-> tensor_parallel_size,
   trust_remote_code |-> trust_remote_code, dtype |-> dtype,
   download_dir |-> download_dir, kwargs |-> kwargs]

\* vllm.SamplingParams(**params)
SamplingParams(params) == [id |-> "new", kw |-> params]

\* one RequestOutput: the prompt and its candidates, kw.n of them
RequestOutput(p, sampling_params) ==
  [prompt |-> p,
   outputs |-> [j \in 1..sampling_params.kw.n |-> [text |-> <<p, j>>]]]

EngineErrors == {"RuntimeError: CUDA out of memory", "ValueError: bad sampling params"}

EngineShapes == {"ordered", "reversed", "truncated"}

EngineBehaviours == EngineShapes \cup EngineErrors

\* what client.generate(prompts, sampling_params) returns when it returns;
\* "ordered" is the documented surface, the other shapes are a client that
\* breaks it
ClientGenerate(prompts, sampling_params, shape) ==
  LET len == Len(prompts)
      ordered == [i \in 1..len |-> RequestOutput(prompts[i], sampling_params)]
  IN CASE shape = "ordered" -> ordered
       [] shape = "reversed" -> [i \in 1..len |-> ordered[len + 1 - i]]
       [] shape = "truncated" -> [i \in 1..(IF len = 0 THEN 0 ELSE len - 1) |-> ordered[i]]

----------------------------------------------------------------------------
(* class VLLM *)

NoCall ==
  [made |-> FALSE, prompts |-> <<>>, stop |-> None, kwargs |-> <<>>,
   engine |-> "none", generate_calls |-> <<>>, outputs |-> None,
   returned |-> None, raised |-> None]

Init ==
  /\ importable \in BOOLEAN
  /\ phase = "init"
  /\ values = None
  /\ self = None
  /\ imports = 0
  /\ constructed = 0
  /\ raised = None
  /\ call = NoCall
  /\ oa = None
  /\ oaParams = None

\* variant of the validator that swallows the failed import and hands the
\* values back as they came
validate_environment_swallow(vals) ==
  /\ phase = "init"
  /\ imports' = imports + 1
  /\ LET out ==
           IF ~importable THEN vals
           ELSE IF ~Truthy(vals.vllm_obj)
           THEN [vals EXCEPT !.client =
                   Some(VLLModel(vals.model, vals.tensor_parallel_size,
                                 vals.trust_remote_code, vals.dtype,
                                 vals.download_dir, vals.vllm_kwargs))]
           ELSE [vals EXCEPT !.client = vals.vllm_obj]
     IN /\ values' = Some(out)
        /\ self' = Some(out)
        /\ constructed' = IF importable /\ ~Truthy(vals.vllm_obj)
                          THEN constructed + 1 ELSE constructed
        /\ phase' = "ready"
        /\ UNCHANGED raised
  /\ UNCHANGED <<importable, call, oa, oaParams>>

\* root validator: runs once, when VLLM(**vals) is constructed
validate_environment(vals) ==
  /\ phase = "init"
  /\ imports' = imports + 1
  /\ IF ~importable
     THEN /\ raised' = Some(ImportErrorMsg)
          /\ values' = Some(vals)
          /\ phase' = "failed"
          /\ UNCHANGED <<self, constructed>>
     ELSE LET out ==
                IF ~Truthy(vals.vllm_obj)
                THEN [vals EXCEPT !.client =
                        Some(VLLModel(vals.model, vals.tensor_parallel_size,
                                      vals.trust_remote_code, vals.dtype,
                                      vals.download_dir, vals.vllm_kwargs))]
                ELSE [vals EXCEPT !.client = vals.vllm_obj]
          IN /\ values' = Some(out)
             /\ self' = Some(out)
             /\ constructed' = IF ~Truthy(vals.vllm_obj) THEN constructed + 1 ELSE constructed
             /\ phase' = "ready"
             /\ UNCHANGED raised
  /\ UNCHANGED <<importable, call, oa, oaParams>>

_default_params(s) ==
  [n |-> s.n,
   best_of |-> s.best_of,
   max_tokens |-> s.max_new_tokens,
   top_k |-> s.top_k,
   top_p |-> s.top_p,
   temperature |-> s.temperature,
   presence_penalty |-> s.presence_penalty,
   frequency_penalty |-> s.frequency_penalty,
   stop |-> s.stop,
   ignore_eos |-> s.ignore_eos,
   use_beam_search |-> s.use_beam_search,
   logprobs |-> s.logprobs]

\* variants of the merge, each a different slip in the dictionary display
BuildParams_stop_first(s, stop, kwargs) ==
  Merge(Merge([stop |-> stop], _default_params(s)), kwargs)

BuildParams_stop_if_given(s, stop, kwargs) ==
  IF stop = None
  THEN Merge(_default_params(s), kwargs)
  ELSE Merge(Merge(_default_params(s), kwargs), [stop |-> stop])

BuildParams_defaults_win(s, stop, kwargs) ==
  Merge(Merge(kwargs, _default_params(s)), [stop |-> stop])

\* params = {**self._default_params, **kwargs, "stop": stop}
BuildParams(s, stop, kwargs) ==
  Merge(Merge(_default_params(s), kwargs), [stop |-> stop])

\* the sampling_params local of _generate
ResolveSamplingParams(s, stop, kwargs) ==
  IF ~Truthy(s.vllm_sampling_params_obj)
  THEN SamplingParams(BuildParams(s, stop, kwargs))
  ELSE s.vllm_sampling_params_obj[1]

Generation(text) == [text |-> text]

LLMResult(generations) == [generations |-> generations]

\* variants of the loop: results appended at the front; the last candidate
\* taken instead of the first
Generations_reversed(outputs) ==
  [i \in 1..Len(outputs) |->
     <<Generation(outputs[Len(outputs) + 1 - i].outputs[1].text)>>]

Generations_last_candidate(outputs) ==
  [i \in 1..Len(outputs) |->
     <<Generation(outputs[i].outputs[Len(outputs[i].outputs)].text)>>]

\* the loop over outputs
Generations(outputs) ==
  [i \in 1..Len(outputs) |-> <<Generation(outputs[i].outputs[1].text)>>]

\* One call of _generate on instance s, as the record of what happened:
\* the arguments, what the engine did (engine), every invocation of
\* client.generate, the outputs it returned, and what the caller gets
\* (returned) or sees raised (raised).
GenerateOutcome_retry(s, prompts, stop, kwargs, behaviour) ==
  LET sampling_params == ResolveSamplingParams(s, stop, kwargs)
      invocation == [client |-> s.client, prompts |-> prompts,
                     sampling_params |-> sampling_params]
      outputs == ClientGenerate(prompts, sampling_params,
                                IF behaviour \in EngineErrors THEN "ordered" ELSE behaviour)
  IN [made |-> TRUE, prompts |-> prompts, stop |-> stop, kwargs |-> kwargs,
      engine |-> behaviour,
      generate_calls |-> IF behaviour \in EngineErrors
                         THEN <<invocation, invocation>> ELSE <<invocation>>,
      outputs |-> Some(outputs),
      returned |-> Some(LLMResult(Generations(outputs))),
      raised |-> None]

GenerateOutcome(s, prompts, stop, kwargs, behaviour) ==
  LET sampling_params == ResolveSamplingParams(s, stop, kwargs)
      invocation == [client |-> s.client, prompts |-> prompts,
                     sampling_params |-> sampling_params]
      base == [made |-> TRUE, prompts |-> prompts, stop |-> stop,
               kwargs |-> kwargs, engine |-> behaviour,
               generate_calls |-> <<invocation>>,
               outputs |-> None, returned |-> None, raised |-> None]
  IN IF behaviour \in EngineErrors
     THEN [base EXCEPT !.raised = Some(behaviour)]
     ELSE LET outputs == ClientGenerate(prompts, sampling_params, behaviour)
          IN [base EXCEPT !.outputs = Some(outputs),
                          !.returned = Some(LLMResult(Generations(outputs)))]

_generate_reload(prompts, stop, kwargs, behaviour) ==
  /\ phase = "ready"
  /\ LET s == self[1]
         fresh == [s EXCEPT !.client =
                     Some(VLLModel(s.model, s.tensor_parallel_size,
                                   s.trust_remote_code, s.dtype,
                                   s.download_dir, s.vllm_kwargs))]
     IN /\ call' = GenerateOutcome(fresh, prompts, stop, kwargs, behaviour)
        /\ self' = Some(fresh)
  /\ constructed' = constructed + 1
  /\ UNCHANGED <<importable, phase, values, imports, raised, oa, oaParams>>

_generate(prompts, stop, kwargs, behaviour) ==
  /\ phase = "ready"
  /\ call' = GenerateOutcome(self[1], prompts, stop, kwargs, behaviour)
  /\ UNCHANGED <<importable, phase, values, self, imports, constructed, raised,
                 oa, oaParams>>

Next ==
  \/ \E vals \in Configs : validate_environment(vals)
  \/ \E prompts \in Batches, stop \in StopArgs, kwargs \in KwargsSet,
        behaviour \in EngineBehaviours :
       _generate(prompts, stop, kwargs, behaviour)

Spec == Init /\ [][Next]_vars

----------------------------------------------------------------------------
(* class VLLMOpenAI(BaseOpenAI) *)

BiasDicts == {{}, {<<"50256", -100>>}}

\* the fields of a VLLMOpenAI instance that reach _invocation_params
OpenAIFields ==
  [openai_api_key : {"EMPTY", "sk-key"},
   openai_api_base : {"http://localhost:8000/v1", "http://vllm:8000/v1"},
   model_name : {"text-davinci-003", "facebook/opt-125m"},
   temperature : {0, 1},
   n : 1..MaxN,
   logit_bias : {None} \cup {Some(b) : b \in BiasDicts},
   model_kwargs : {<<>>} \cup {[logit_bias |-> Some(b)] : b \in BiasDicts \ {{}}}]

\* the _default_params property inherited from BaseOpenAI
BaseOpenAI_default_params(s) ==
  Merge([temperature |-> s.temperature, max_tokens |-> 256, n |-> s.n,
         logit_bias |-> s.logit_bias],
        s.model_kwargs)

\* construction of a VLLMOpenAI instance (inherited from BaseOpenAI)
VLLMOpenAI_init(fields) ==
  /\ oa = None
  /\ oa' = Some(fields)
  /\ UNCHANGED <<vllmVars, oaParams>>

InvocationParams_defaults_last(s) ==
  LET openai_creds == [api_key |-> s.openai_api_key, api_base |-> s.openai_api_base]
  IN Merge(Merge(Merge([model |-> s.model_name], openai_creds),
                 [logit_bias |-> None]),
           BaseOpenAI_default_params(s))

\* the map built by the _invocation_params property
InvocationParams(s) ==
  LET openai_creds == [api_key |-> s.openai_api_key, api_base |-> s.openai_api_base]
  IN Merge(Merge(Merge([model |-> s.model_name], openai_creds),
                 BaseOpenAI_default_params(s)),
           [logit_bias |-> None])

\* reading the _invocation_params property
_invocation_params ==
  /\ oa # None
  /\ oaParams' = Some(InvocationParams(oa[1]))
  /\ UNCHANGED <<vllmVars, oa>>

NextOpenAI ==
  \/ \E fields \in OpenAIFields : VLLMOpenAI_init(fields)
  \/ _invocation_params

SpecOpenAI == Init /\ [][NextOpenAI]_vars

----------------------------------------------------------------------------
(* Properties *)

\* what the last call handed to client.generate
Invocations == call.generate_calls

\* the client kept the documented surface on the last call: one output per
\* prompt, in input order
ClientInOrder ==
  /\ call.outputs # None
  /\ Len(call.outputs[1]) = Len(call.prompts)
  /\ \A i \in 1..Len(call.prompts) : call.outputs[1][i].prompt = call.prompts[i]

\* C1: when the client returns one output per prompt in input order, the
\* LLMResult has exactly as many generation groups as there were prompts and
\* the text of group i is taken from the client's i-th output.
C1_OrderPreserved ==
  (call.made /\ call.returned # None /\ ClientInOrder) =>
     LET generations == call.returned[1].generations
     IN /\ Len(generations) = Len(call.prompts)
        /\ \A i \in 1..Len(call.prompts) :
             generations[i][1].text = call.outputs[1][i].outputs[1].text

C1_Witness ==
  /\ call.made /\ call.returned # None /\ ClientInOrder
  /\ Len(call.prompts) = 2
  /\ call.prompts[1] # call.prompts[2]

C3_StopOverrideAlways ==
  (call.made /\ call.stop # None) =>
     \A k \in 1..Len(Invocations) : Invocations[k].sampling_params.kw.stop = call.stop

\* C3 amended: whenever the call names a stop override and no pre-built
\* sampling-params object is configured, the sampling parameters handed to
\* client.generate carry that override as their stop value, whatever the
\* configured stop list and the per-call options are.
C3_StopOverrideWhenMerged ==
  (call.made /\ call.stop # None /\ self[1].vllm_sampling_params_obj = None) =>
     \A k \in 1..Len(Invocations) : Invocations[k].sampling_params.kw.stop = call.stop

C3_Witness ==
  /\ call.made /\ call.stop = Some(<<"STOP">>)
  /\ self[1].vllm_sampling_params_obj = None
  /\ self[1].stop # None
  /\ call.kwargs # <<>>
  /\ Invocations[1].sampling_params.kw.stop = Some(<<"STOP">>)

\* C4 as stated: with a pre-supplied client object, construction succeeds,
\* client is that very object, the engine package is never imported and no
\* engine client is constructed.
C4_SuppliedClientNoImport ==
  (phase # "init" /\ values[1].vllm_obj # None) =>
     /\ phase = "ready"
     /\ self[1].client = self[1].vllm_obj
     /\ imports = 0
     /\ constructed = 0

\* C5: without a pre-supplied client and with the engine package not
\* importable, construction ends in the ImportError with the install
\* message; no engine client was constructed, no client handle was assigned
\* and there is no adapter instance.
C5_CleanImportFailure ==
  (phase # "init" /\ ~importable /\ values[1].vllm_obj = None) =>
     /\ phase = "failed"
     /\ raised = Some(ImportErrorMsg)
     /\ constructed = 0
     /\ values[1].client = None
     /\ self = None

C5_Witness ==
  /\ phase = "failed" /\ ~importable
  /\ values[1].vllm_obj = None
  /\ raised = Some(ImportErrorMsg)

\* C6: the map read from _invocation_params always has the key logit_bias
\* with value None, whatever logit_bias the inherited defaults carry, and has
\* the api_key, api_base and model entries.
C6_LogitBiasNull ==
  oaParams # None =>
     /\ {"logit_bias", "api_key", "api_base", "model"} \subseteq DOMAIN oaParams[1]
     /\ oaParams[1]["logit_bias"] = None

C6_Witness ==
  /\ oaParams # None
  /\ BaseOpenAI_default_params(oa[1])["logit_bias"] # None
  /\ oaParams[1]["logit_bias"] = None

\* C7: the sampling parameters handed to client.generate are the configured
\* pre-built object itself when there is one; otherwise a new object whose
\* keys are those of the defaults and of the per-call options plus stop, where
\* stop is the call's stop argument, every other key given per call has the
\* per-call value, and every remaining key has the configured default.
C7_LayeredMerge ==
  call.made =>
     \A k \in 1..Len(Invocations) :
       LET sp == Invocations[k].sampling_params
           defaults == _default_params(self[1])
       IN IF self[1].vllm_sampling_params_obj # None
          THEN sp = self[1].vllm_sampling_params_obj[1]
          ELSE /\ sp.id = "new"
               /\ DOMAIN sp.kw = (DOMAIN defaults) \cup (DOMAIN call.kwargs) \cup {"stop"}
               /\ \A key \in DOMAIN sp.kw :
                    sp.kw[key] = IF key = "stop" THEN call.stop
                                 ELSE IF key \in DOMAIN call.kwargs THEN call.kwargs[key]
                                 ELSE defaults[key]

C7_Witness ==
  /\ call.made
  /\ self[1].vllm_sampling_params_obj = None
  /\ call.kwargs # <<>>
  /\ call.kwargs.n # self[1].n
  /\ Invocations[1].sampling_params.kw.n = call.kwargs.n

\* C8: every call invokes client.generate exactly once, with the whole prompt
\* batch; when that invocation fails the caller sees exactly the engine's
\* failure and gets no LLMResult.
C8_OneInvocationErrorPropagates ==
  call.made =>
     /\ Len(Invocations) = 1
     /\ Invocations[1].prompts = call.prompts
     /\ (call.engine \in EngineErrors =>
           /\ call.raised = Some(call.engine)
           /\ call.returned = None)

C8_Witness ==
  /\ call.made
  /\ call.engine \in EngineErrors
  /\ call.raised = Some(call.engine)
  /\ Len(call.prompts) = 2

\* C9: the adapter constructs an engine client at most once; every call hands
\* its prompts to the client handle the instance holds; and no step taken
\* once the instance exists (that is, no call, returning or raising) changes
\* the instance's fields, its client handle included, or constructs a client.
C9_ClientCreatedOnceNeverChanged ==
  /\ [](/\ constructed <= 1
        /\ call.made =>
             \A k \in 1..Len(Invocations) : Invocations[k].client = self[1].client)
  /\ [][phase = "ready" => (self' = self /\ constructed' = constructed)]_vars

C9_Witness ==
  /\ call.made
  /\ call.engine \in EngineErrors
  /\ constructed = 1
  /\ self[1].client[1].id = "constructed"
  /\ Invocations[1].client = self[1].client

====
